---- MODULE Spec2Model ----
(***************************************************************************)
(* The request handler layer of server/routes.ts as a state machine.       *)
(*                                                                         *)
(* Every handler is an async function: it runs synchronously up to an      *)
(* `await storage.xxx(...)`, the storage operation takes effect, and the   *)
(* handler resumes.  pc[p] names the storage operation request p is        *)
(* waiting for; one action is "that operation takes effect and the handler *)
(* runs on to its next await or to its response".  Requests of different   *)
(* processes interleave at the awaits only, as on Node's event loop.       *)
(*                                                                         *)
(* The storage collaborator (server/storage.ts) and the zod schemas        *)
(* (shared/schema.ts) are imported by routes.ts; the operators that stand  *)
(* for them follow the storage contract of the specification.              *)
(***************************************************************************)
EXTENDS Integers, Sequences, FiniteSets, TLC

VARIABLES
    users,          \* storage: the user records, in creation order
    messages,       \* storage: the message records, in creation order
    notifications,  \* storage: the notification records, in creation order
    settings,       \* storage: the settings records, in creation order
    nextId,         \* storage: the id the next notification gets
    now,            \* the wall clock, in days since the epoch
    pc,             \* per request: the storage call awaited, "idle" or "done"
    req,            \* per request: method and path, body, :id
    user,           \* per request: `const user = await getDemoUser()`
    updatedUser,    \* per request: `const updatedUser` of POST /api/checkin
    today,          \* per request: `const today = new Date()` of POST /api/checkin
    resp,           \* per request: the response sent
    pre,            \* per request: the storage as it was when the request arrived
    nreq            \* requests received so far

vars == <<users, messages, notifications, settings, nextId, now,
          pc, req, user, updatedUser, today, resp, pre, nreq>>

store == <<users, messages, notifications, settings, nextId>>

-----------------------------------------------------------------------------
(* Bounds of the model *)

\* requests the server receives in one run
MaxRequests == 3
\* users the storage may hold before the first request
MaxInitUsers == 2
\* the model's calendar: days in a month, months in a year, last day of the run
DaysPerMonth == 2
MonthsPerYear == 2
MaxDay == 4

\* requests in one run of concurrent requests
MaxConcurrent == 2

Procs == {1, 2}

-----------------------------------------------------------------------------
(* Values *)

\* null / undefined, and a present value, for nullable fields and optional keys
Null == <<>>
Some(v) == <<v>>

NoUser == [id |-> 0, username |-> "", points |-> 0, lastCheckin |-> Null]
NoBody == [shape |-> "none"]
NoResponse == [status |-> 0, body |-> NoBody]
EmptyStore == [users |-> <<>>, messages |-> <<>>, notifications |-> <<>>, settings |-> <<>>]
Storage == [users |-> users, messages |-> messages,
            notifications |-> notifications, settings |-> settings]

\* Date.prototype.getDate / getMonth / getFullYear on the model's calendar
getDate(t) == (t % DaysPerMonth) + 1
getMonth(t) == (t \div DaysPerMonth) % MonthsPerYear
getFullYear(t) == t \div (DaysPerMonth * MonthsPerYear)

-----------------------------------------------------------------------------
(* Requests *)

MessageBodies == {[shape |-> "message", content |-> "hello"]}
NotificationBodies == {[shape |-> "notification", title |-> "Hi", message |-> "there"]}
\* a partial settings body: each key absent or present
SettingsBodies ==
    {[shape |-> "settings", theme |-> t, notifications |-> n, emailNotifications |-> e] :
        t \in {Null, Some("dark"), Some("")},
        n \in {Null, Some(FALSE)},
        e \in {Null, Some(TRUE)}}
\* a body the schema rejects
BadBody == [shape |-> "invalid"]

Request(k, b, i) == [kind |-> k, body |-> b, id |-> i]
NoRequest == Request("", NoBody, 0)

Requests ==
    {Request(k, NoBody, 0) : k \in {"GET /api/messages", "POST /api/checkin", "GET /api/user",
                                    "GET /api/notifications", "GET /api/settings"}}
    \cup {Request("POST /api/messages", b, 0) : b \in MessageBodies \cup {BadBody}}
    \cup {Request("POST /api/notifications", b, 0) : b \in NotificationBodies \cup {BadBody}}
    \cup {Request("PATCH /api/settings", b, 0) : b \in SettingsBodies \cup {BadBody}}
    \cup {Request("DELETE /api/notifications/:id", NoBody, i) : i \in 1..MaxRequests}

-----------------------------------------------------------------------------
(* The schemas: shape validation of a request body *)

\* insertMessageSchema.parse, insertNotificationSchema.parse,
\* insertSettingsSchema.partial().parse: TRUE when parse returns, FALSE when it throws
SchemaAccepts(kind, body) ==
    CASE kind = "POST /api/messages" -> body.shape = "message"
      [] kind = "POST /api/notifications" -> body.shape = "notification"
      [] kind = "PATCH /api/settings" -> body.shape = "settings"
      [] OTHER -> TRUE

-----------------------------------------------------------------------------
(* The storage collaborator *)

\* createUser: a new user, without points or check-in, last in the list
createUser(us, cred) ==
    Append(us, [id |-> Len(us) + 1, username |-> cred.username,
                points |-> 0, lastCheckin |-> Null])

\* the points updateUserCheckin awards
CheckinPoints == 10

updateUserPoints(us, uid, delta) ==
    [i \in 1..Len(us) |-> IF us[i].id = uid
                          THEN [us[i] EXCEPT !.points = @ + delta] ELSE us[i]]

updateUserCheckin(us, uid, t) ==
    [i \in 1..Len(us) |-> IF us[i].id = uid
                          THEN [us[i] EXCEPT !.points = @ + CheckinPoints,
                                             !.lastCheckin = Some(t)]
                          ELSE us[i]]

getUser(us, uid) == us[CHOOSE i \in 1..Len(us) : us[i].id = uid]

getMessagesByUserId(ms, uid) == SelectSeq(ms, LAMBDA m : m.userId = uid)
createMessage(ms, data, uid) == Append(ms, [userId |-> uid, content |-> data.content])

getNotificationsByUserId(ns, uid) == SelectSeq(ns, LAMBDA n : n.userId = uid)
newNotification(id, data, uid) ==
    [id |-> id, userId |-> uid, title |-> data.title, message |-> data.message]
createNotification(ns, id, data, uid) == Append(ns, newNotification(id, data, uid))
hasNotification(ns, id) == \E i \in 1..Len(ns) : ns[i].id = id
deleteNotification(ns, id) == SelectSeq(ns, LAMBDA n : n.id # id)

hasSettings(ss, uid) == \E i \in 1..Len(ss) : ss[i].userId = uid
getSettingsByUserId(ss, uid) ==
    ss[CHOOSE i \in 1..Len(ss) : ss[i].userId = uid /\ \A j \in 1..(i-1) : ss[j].userId # uid]
\* getSettingsByUserId's answer: the record, or null
findSettings(ss, uid) == IF hasSettings(ss, uid) THEN Some(getSettingsByUserId(ss, uid)) ELSE Null
newSettings(data, uid) ==
    [userId |-> uid, theme |-> data.theme, notifications |-> data.notifications,
     emailNotifications |-> data.emailNotifications]
createSettings(ss, data, uid) == Append(ss, newSettings(data, uid))
\* a partial update: the supplied keys overwrite, the others stay
mergeSettings(s, partial) ==
    [s EXCEPT !.theme = IF partial.theme = Null THEN @ ELSE partial.theme[1],
              !.notifications = IF partial.notifications = Null THEN @ ELSE partial.notifications[1],
              !.emailNotifications =
                  IF partial.emailNotifications = Null THEN @ ELSE partial.emailNotifications[1]]
updateSettings(ss, uid, partial) ==
    [i \in 1..Len(ss) |-> IF ss[i].userId = uid THEN mergeSettings(ss[i], partial) ELSE ss[i]]

-----------------------------------------------------------------------------
(* The handlers' own values *)

DemoCredentials == [username |-> "DemoUser", password |-> "demo"]

\* mutant: the first user wins
DemoUserPickFirst(us) == us[1]

\* getDemoUser's choice among the users read
DemoUserPick(us) == us[Len(us)]

\* mutant: the same-day test without the year
isSameDayNoYear(lastCheckin, td) ==
    /\ getDate(lastCheckin) = getDate(td)
    /\ getMonth(lastCheckin) = getMonth(td)

\* POST /api/checkin: the same-day test
isSameDay(lastCheckin, td) ==
    /\ getDate(lastCheckin) = getDate(td)
    /\ getMonth(lastCheckin) = getMonth(td)
    /\ getFullYear(lastCheckin) = getFullYear(td)

\* mutant: two points for a message
MessageAwardTwice(u) == [userId |-> u.id, delta |-> 2]

\* POST /api/messages: the arguments of storage.updateUserPoints
MessageAward(u) == [userId |-> u.id, delta |-> 1]

\* mutant: another title
CheckinNotificationOther ==
    [title |-> "Check-in", message |-> "You've earned 10 points! Come back tomorrow for more."]

\* POST /api/checkin: the notification created
CheckinNotification ==
    [title |-> "Daily Check-in Complete!",
     message |-> "You've earned 10 points! Come back tomorrow for more."]

\* mutant: settings are created on every request
SettingsAbsentAlways(found) == TRUE

\* GET and PATCH /api/settings: `!settings`, for what getSettingsByUserId found
SettingsAbsent(found) == found = Null

\* GET /api/settings: the settings created when there are none
DefaultSettings == [theme |-> "light", notifications |-> TRUE, emailNotifications |-> FALSE]

\* JavaScript's a || b on an optional string and a ?? b on an optional value
Falsy(s) == s = ""
OrElse(opt, d) == IF opt = Null \/ Falsy(opt[1]) THEN d ELSE opt[1]
Coalesce(opt, d) == IF opt = Null THEN d ELSE opt[1]

\* PATCH /api/settings: the settings created when there are none
PatchCreateData(parsed) ==
    [theme |-> OrElse(parsed.theme, "light"),
     notifications |-> Coalesce(parsed.notifications, TRUE),
     emailNotifications |-> Coalesce(parsed.emailNotifications, FALSE)]

Ok(body) == [status |-> 200, body |-> body]
Error(status, msg) == [status |-> status, body |-> [error |-> msg]]

\* each handler's catch block
Caught(kind) ==
    CASE kind = "GET /api/messages" -> Error(500, "Failed to fetch messages")
      [] kind = "POST /api/messages" -> Error(400, "Invalid message data")
      [] kind = "POST /api/checkin" -> Error(500, "Failed to check in")
      [] kind = "GET /api/user" -> Error(500, "Failed to fetch user")
      [] kind = "GET /api/notifications" -> Error(500, "Failed to fetch notifications")
      [] kind = "POST /api/notifications" -> Error(400, "Invalid notification data")
      [] kind = "DELETE /api/notifications/:id" -> Error(500, "Failed to delete notification")
      [] kind = "GET /api/settings" -> Error(500, "Failed to fetch settings")
      [] kind = "PATCH /api/settings" -> Error(400, "Invalid settings data")

\* mutant: storage's answer is ignored
DeleteResponseAlwaysOk(deleted) == Ok([success |-> TRUE])

\* DELETE /api/notifications/:id: the response for storage's answer
DeleteResponse(deleted) ==
    IF ~deleted THEN Error(404, "Notification not found") ELSE Ok([success |-> TRUE])

-----------------------------------------------------------------------------
(* The state machine *)

InitUsers(n) == [i \in 1..n |-> [id |-> i, username |-> "user", points |-> 0, lastCheckin |-> Null]]

Init ==
    /\ users \in {InitUsers(n) : n \in 0..MaxInitUsers}
    /\ messages = <<>>
    /\ notifications = <<>>
    /\ settings = <<>>
    /\ nextId = 1
    /\ now = 0
    /\ pc = [p \in Procs |-> "idle"]
    /\ req = [p \in Procs |-> NoRequest]
    /\ user = [p \in Procs |-> NoUser]
    /\ updatedUser = [p \in Procs |-> NoUser]
    /\ today = [p \in Procs |-> Null]
    /\ resp = [p \in Procs |-> NoResponse]
    /\ pre = [p \in Procs |-> EmptyStore]
    /\ nreq = 0

\* the clock moves on to the next day
Tick ==
    /\ now < MaxDay
    /\ now' = now + 1
    /\ UNCHANGED <<store, pc, req, user, updatedUser, today, resp, pre, nreq>>

Goto(p, label) == pc' = [pc EXCEPT ![p] = label]
Respond(p, r) == /\ pc' = [pc EXCEPT ![p] = "done"]
                 /\ resp' = [resp EXCEPT ![p] = r]

\* a request arrives; the handler runs to its first await
Start(p) ==
    /\ pc[p] = "idle"
    /\ nreq < MaxRequests
    /\ \E r \in Requests :
        /\ req' = [req EXCEPT ![p] = r]
        /\ Goto(p, IF r.kind = "DELETE /api/notifications/:id"
                   THEN "deleteNotification" ELSE "getAllUsers")
    /\ pre' = [pre EXCEPT ![p] = Storage]
    /\ nreq' = nreq + 1
    /\ UNCHANGED <<store, now, user, updatedUser, today, resp>>

\* the handler's code between `await getDemoUser()` returning u and its next await
AfterGetDemoUser(p, u) ==
    LET kind == req[p].kind IN
    /\ user' = [user EXCEPT ![p] = u]
    /\ CASE kind = "GET /api/messages" ->
              Goto(p, "getMessagesByUserId") /\ UNCHANGED <<resp, today>>
         [] kind = "GET /api/user" ->
              Respond(p, Ok(u)) /\ UNCHANGED today
         [] kind = "GET /api/notifications" ->
              Goto(p, "getNotificationsByUserId") /\ UNCHANGED <<resp, today>>
         [] kind = "GET /api/settings" ->
              Goto(p, "getSettingsByUserId") /\ UNCHANGED <<resp, today>>
         [] kind = "POST /api/messages" ->
              /\ IF SchemaAccepts(kind, req[p].body)
                 THEN Goto(p, "createMessage") /\ UNCHANGED resp
                 ELSE Respond(p, Caught(kind))
              /\ UNCHANGED today
         [] kind = "POST /api/notifications" ->
              /\ IF SchemaAccepts(kind, req[p].body)
                 THEN Goto(p, "createNotification") /\ UNCHANGED resp
                 ELSE Respond(p, Caught(kind))
              /\ UNCHANGED today
         [] kind = "PATCH /api/settings" ->
              /\ IF SchemaAccepts(kind, req[p].body)
                 THEN Goto(p, "getSettingsByUserId") /\ UNCHANGED resp
                 ELSE Respond(p, Caught(kind))
              /\ UNCHANGED today
         [] kind = "POST /api/checkin" ->
              IF u.lastCheckin # Null
              THEN /\ today' = [today EXCEPT ![p] = Some(now)]
                   /\ IF isSameDay(u.lastCheckin[1], now)
                      THEN Respond(p, Error(400, "Already checked in today"))
                      ELSE Goto(p, "updateUserCheckin") /\ UNCHANGED resp
              ELSE Goto(p, "updateUserCheckin") /\ UNCHANGED <<resp, today>>

\* getDemoUser: storage.getAllUsers() answers
GetAllUsers(p) ==
    /\ pc[p] = "getAllUsers"
    /\ IF Len(users) = 0
       THEN Goto(p, "createUser") /\ UNCHANGED <<user, resp, today>>
       ELSE AfterGetDemoUser(p, DemoUserPick(users))
    /\ UNCHANGED <<store, now, req, updatedUser, pre, nreq>>

\* getDemoUser: storage.createUser() answers
CreateUser(p) ==
    /\ pc[p] = "createUser"
    /\ users' = createUser(users, DemoCredentials)
    /\ AfterGetDemoUser(p, users'[Len(users')])
    /\ UNCHANGED <<messages, notifications, settings, nextId, now, req, updatedUser, pre, nreq>>

\* GET /api/messages: storage.getMessagesByUserId() answers
GetMessagesByUserId(p) ==
    /\ pc[p] = "getMessagesByUserId"
    /\ Respond(p, Ok([list |-> getMessagesByUserId(messages, user[p].id)]))
    /\ UNCHANGED <<store, now, req, user, updatedUser, today, pre, nreq>>

\* POST /api/messages: storage.createMessage() answers
CreateMessage(p) ==
    /\ pc[p] = "createMessage"
    /\ messages' = createMessage(messages, req[p].body, user[p].id)
    /\ Goto(p, "updateUserPoints")
    /\ UNCHANGED <<users, notifications, settings, nextId, now,
                   req, user, updatedUser, today, resp, pre, nreq>>

\* POST /api/messages: storage.updateUserPoints() answers
UpdateUserPoints(p) ==
    /\ pc[p] = "updateUserPoints"
    /\ users' = updateUserPoints(users, MessageAward(user[p]).userId, MessageAward(user[p]).delta)
    /\ Respond(p, Ok([userId |-> user[p].id, content |-> req[p].body.content]))
    /\ UNCHANGED <<messages, notifications, settings, nextId, now,
                   req, user, updatedUser, today, pre, nreq>>

\* POST /api/checkin: storage.updateUserCheckin() answers
UpdateUserCheckin(p) ==
    /\ pc[p] = "updateUserCheckin"
    /\ users' = updateUserCheckin(users, user[p].id, now)
    /\ updatedUser' = [updatedUser EXCEPT ![p] = getUser(users', user[p].id)]
    /\ Goto(p, "createNotification")
    /\ UNCHANGED <<messages, notifications, settings, nextId, now,
                   req, user, today, resp, pre, nreq>>

\* POST /api/checkin and POST /api/notifications: storage.createNotification() answers
CreateNotification(p) ==
    LET checkin == req[p].kind = "POST /api/checkin"
        data == IF checkin THEN CheckinNotification ELSE req[p].body
    IN
    /\ pc[p] = "createNotification"
    /\ notifications' = createNotification(notifications, nextId, data, user[p].id)
    /\ nextId' = nextId + 1
    /\ Respond(p, Ok(IF checkin THEN updatedUser[p]
                                ELSE newNotification(nextId, data, user[p].id)))
    /\ UNCHANGED <<users, messages, settings, now, req, user, updatedUser, today, pre, nreq>>

\* GET /api/notifications: storage.getNotificationsByUserId() answers
GetNotificationsByUserId(p) ==
    /\ pc[p] = "getNotificationsByUserId"
    /\ Respond(p, Ok([list |-> getNotificationsByUserId(notifications, user[p].id)]))
    /\ UNCHANGED <<store, now, req, user, updatedUser, today, pre, nreq>>

\* DELETE /api/notifications/:id: storage.deleteNotification() answers
DeleteNotification(p) ==
    /\ pc[p] = "deleteNotification"
    /\ notifications' = deleteNotification(notifications, req[p].id)
    /\ Respond(p, DeleteResponse(hasNotification(notifications, req[p].id)))
    /\ UNCHANGED <<users, messages, settings, nextId, now,
                   req, user, updatedUser, today, pre, nreq>>

\* GET and PATCH /api/settings: storage.getSettingsByUserId() answers
GetSettingsByUserId(p) ==
    /\ pc[p] = "getSettingsByUserId"
    /\ IF SettingsAbsent(findSettings(settings, user[p].id))
       THEN Goto(p, "createSettings") /\ UNCHANGED resp
       ELSE IF req[p].kind = "GET /api/settings"
            THEN Respond(p, Ok(getSettingsByUserId(settings, user[p].id)))
            ELSE Goto(p, "updateSettings") /\ UNCHANGED resp
    /\ UNCHANGED <<store, now, req, user, updatedUser, today, pre, nreq>>

\* GET and PATCH /api/settings: storage.createSettings() answers
CreateSettings(p) ==
    LET data == IF req[p].kind = "GET /api/settings"
                THEN DefaultSettings ELSE PatchCreateData(req[p].body)
    IN
    /\ pc[p] = "createSettings"
    /\ settings' = createSettings(settings, data, user[p].id)
    /\ Respond(p, Ok(newSettings(data, user[p].id)))
    /\ UNCHANGED <<users, messages, notifications, nextId, now,
                   req, user, updatedUser, today, pre, nreq>>

\* PATCH /api/settings: storage.updateSettings() answers
UpdateSettings(p) ==
    /\ pc[p] = "updateSettings"
    /\ settings' = updateSettings(settings, user[p].id, req[p].body)
    /\ Respond(p, Ok(getSettingsByUserId(settings', user[p].id)))
    /\ UNCHANGED <<users, messages, notifications, nextId, now,
                   req, user, updatedUser, today, pre, nreq>>

\* the storage call a request awaits throws; the handler's catch block responds
StorageCalls ==
    {"getAllUsers", "createUser", "getMessagesByUserId", "createMessage", "updateUserPoints",
     "updateUserCheckin", "createNotification", "getNotificationsByUserId",
     "deleteNotification", "getSettingsByUserId", "createSettings", "updateSettings"}

StorageThrows(p) ==
    /\ pc[p] \in StorageCalls
    /\ Respond(p, Caught(req[p].kind))
    /\ UNCHANGED <<store, now, req, user, updatedUser, today, pre, nreq>>

\* the response has been sent; the request's locals are gone
Finish(p) ==
    /\ pc[p] = "done"
    /\ pc' = [pc EXCEPT ![p] = "idle"]
    /\ req' = [req EXCEPT ![p] = NoRequest]
    /\ user' = [user EXCEPT ![p] = NoUser]
    /\ updatedUser' = [updatedUser EXCEPT ![p] = NoUser]
    /\ today' = [today EXCEPT ![p] = Null]
    /\ resp' = [resp EXCEPT ![p] = NoResponse]
    /\ pre' = [pre EXCEPT ![p] = EmptyStore]
    /\ UNCHANGED <<store, now, nreq>>

\* one step of a request in flight
Step(p) ==
    \/ GetAllUsers(p)
    \/ CreateUser(p)
    \/ GetMessagesByUserId(p)
    \/ CreateMessage(p)
    \/ UpdateUserPoints(p)
    \/ UpdateUserCheckin(p)
    \/ CreateNotification(p)
    \/ GetNotificationsByUserId(p)
    \/ DeleteNotification(p)
    \/ GetSettingsByUserId(p)
    \/ CreateSettings(p)
    \/ UpdateSettings(p)
    \/ Finish(p)

\* requests one after the other, the storage honouring its contract
Next == Tick \/ Start(1) \/ Step(1)
Spec == Init /\ [][Next]_vars

\* requests one after the other, storage calls may throw
NextFail == Tick \/ Start(1) \/ Step(1) \/ StorageThrows(1)
SpecFail == Init /\ [][NextFail]_vars

\* concurrent requests, interleaved at their awaits
NextConc == Tick \/ \E p \in Procs : ((nreq < MaxConcurrent /\ Start(p)) \/ Step(p))
SpecConc == Init /\ [][NextConc]_vars

-----------------------------------------------------------------------------
(* Properties *)

Done(p, kind) == pc[p] = "done" /\ req[p].kind = kind

\* the users request p found: those stored when it arrived, or, when there were
\* none, the one user its resolution created
UsersFound(p) ==
    IF pre[p].users = <<>>
    THEN <<[id |-> 1, username |-> "DemoUser", points |-> 0, lastCheckin |-> Null]>>
    ELSE pre[p].users

\* the resolved user's record as request p found it, and as it is stored now
Before(p) == getUser(UsersFound(p), user[p].id)
After(p) == getUser(users, user[p].id)

\* apart from user uid's points and check-in, the users are as request p found them
OtherUsersKept(p, uid) ==
    /\ Len(users) = Len(UsersFound(p))
    /\ \A i \in 1..Len(users) :
        IF users[i].id = uid
        THEN users[i].id = UsersFound(p)[i].id /\ users[i].username = UsersFound(p)[i].username
        ELSE users[i] = UsersFound(p)[i]

\* C1: A POST /checkin made when the resolved user's last check-in is on the
\* calendar date of the request (the day the handler reads the clock) responds
\* 400 "Already checked in today" and changes nothing; made when the last
\* check-in is absent or on another date it responds 200 and records a check-in
\* on a later date than the last one, so that no date has two successful check-ins.
C1_OneCheckinPerDate ==
    \A p \in Procs : Done(p, "POST /api/checkin") =>
        LET last == Before(p).lastCheckin IN
        IF last # Null /\ last[1] = today[p][1]
        THEN /\ resp[p] = Error(400, "Already checked in today")
             /\ Storage = pre[p]
        ELSE /\ resp[p].status = 200
             /\ After(p).lastCheckin # Null
             /\ last # Null => last[1] < After(p).lastCheckin[1]
             /\ OtherUsersKept(p, user[p].id)

\* C1 witness: a check-in was rejected because one was recorded earlier that day
C1_Witness ==
    /\ Done(1, "POST /api/checkin")
    /\ resp[1].status = 400
    /\ Before(1).lastCheckin = Some(now)

\* C2: For every valid message payload, POST /messages responds 200, increases the
\* resolved user's points by exactly 1, appends exactly that message to the list
\* GET /messages returns for that user, and leaves every other user's points and
\* messages as they were.
C2_MessageAwardsOnePoint ==
    \A p \in Procs :
        Done(p, "POST /api/messages") /\ SchemaAccepts(req[p].kind, req[p].body) =>
            LET uid == user[p].id IN
            /\ resp[p].status = 200
            /\ After(p).points = Before(p).points + 1
            /\ After(p).lastCheckin = Before(p).lastCheckin
            /\ OtherUsersKept(p, uid)
            /\ getMessagesByUserId(messages, uid) =
                   Append(getMessagesByUserId(pre[p].messages, uid),
                          [userId |-> uid, content |-> req[p].body.content])
            /\ \A i \in 1..Len(users) : users[i].id # uid =>
                   getMessagesByUserId(messages, users[i].id) =
                       getMessagesByUserId(pre[p].messages, users[i].id)

\* C2 witness: a valid message was posted while another user exists
C2_Witness ==
    /\ Done(1, "POST /api/messages")
    /\ resp[1].status = 200
    /\ Len(users) >= 2

\* the notifications are those request p found plus one, for user uid, with this title
OneNewNotification(p, uid, title) ==
    /\ Len(notifications) = Len(pre[p].notifications) + 1
    /\ SubSeq(notifications, 1, Len(pre[p].notifications)) = pre[p].notifications
    /\ notifications[Len(notifications)].userId = uid
    /\ notifications[Len(notifications)].title = title
    /\ ~hasNotification(pre[p].notifications, notifications[Len(notifications)].id)

\* the check-in of request p has been recorded: the resolved user got the points
CheckinRecorded(p) == user[p] # NoUser /\ After(p).points # Before(p).points

\* C3 as stated: After every POST /checkin in which the check-in is recorded,
\* exactly one new "Daily Check-in Complete!" notification exists for the resolved
\* user; a POST /checkin rejected as already-checked-in creates none.
C3_Original ==
    \A p \in Procs : Done(p, "POST /api/checkin") =>
        /\ CheckinRecorded(p) =>
               OneNewNotification(p, user[p].id, "Daily Check-in Complete!")
        /\ resp[p].status = 400 => notifications = pre[p].notifications

\* C3 as amended: After every POST /checkin that responds 200, exactly one new
\* "Daily Check-in Complete!" notification exists for the resolved user; a POST
\* /checkin that responds 400 or 500 creates none, also when its check-in was
\* recorded before the failure.
C3_NotificationOnSuccess ==
    \A p \in Procs : Done(p, "POST /api/checkin") =>
        /\ resp[p].status \in {200, 400, 500}
        /\ resp[p].status = 200 =>
               /\ CheckinRecorded(p)
               /\ OneNewNotification(p, user[p].id, "Daily Check-in Complete!")
        /\ resp[p].status # 200 => notifications = pre[p].notifications

\* C3 witness: a check-in succeeded
C3_Witness ==
    /\ Done(1, "POST /api/checkin")
    /\ resp[1].status = 200
    /\ CheckinRecorded(1)

\* the client's fault: a body the schema rejects, or a check-in already done today
ClientFault(p) ==
    \/ ~SchemaAccepts(req[p].kind, req[p].body)
    \/ /\ req[p].kind = "POST /api/checkin"
       /\ user[p].lastCheckin # Null
       /\ user[p].lastCheckin = today[p]

\* C4: A 400 response is produced only by a client-input fault; a storage failure
\* is reported as 500, never as 400.
C4_Original ==
    \A p \in Procs : pc[p] = "done" /\ resp[p].status = 400 => ClientFault(p)

\* a supplied field's value, or the default when the field is not supplied
Supplied(opt, default) == IF opt = Null THEN default ELSE opt[1]

\* C5: PATCH /settings with a valid partial body: without settings, the settings
\* created take each supplied field's value and the default for each field not
\* supplied; with settings, exactly the supplied fields change.
C5_Original ==
    \A p \in Procs :
        Done(p, "PATCH /api/settings") /\ SchemaAccepts(req[p].kind, req[p].body) =>
            LET uid == user[p].id
                body == req[p].body
                old == IF hasSettings(pre[p].settings, uid)
                       THEN getSettingsByUserId(pre[p].settings, uid)
                       ELSE [userId |-> uid, theme |-> "light", notifications |-> TRUE,
                             emailNotifications |-> FALSE]
                new == [userId |-> uid,
                        theme |-> Supplied(body.theme, old.theme),
                        notifications |-> Supplied(body.notifications, old.notifications),
                        emailNotifications |->
                            Supplied(body.emailNotifications, old.emailNotifications)]
            IN
            /\ resp[p] = Ok(new)
            /\ hasSettings(settings, uid)
            /\ getSettingsByUserId(settings, uid) = new

\* C6: GET /settings for a user without settings returns theme "light",
\* notifications true, emailNotifications false and stores them; for a user with
\* settings it returns the stored settings and stores nothing, so repeated GETs
\* return the same settings and the user keeps one settings record.
C6_GetSettingsIdempotent ==
    \A p \in Procs : Done(p, "GET /api/settings") =>
        LET uid == user[p].id
            default == [userId |-> uid, theme |-> "light", notifications |-> TRUE,
                        emailNotifications |-> FALSE]
        IN
        /\ resp[p].status = 200
        /\ IF hasSettings(pre[p].settings, uid)
           THEN /\ resp[p].body = getSettingsByUserId(pre[p].settings, uid)
                /\ settings = pre[p].settings
           ELSE /\ resp[p].body = default
                /\ settings = Append(pre[p].settings, default)
        /\ Cardinality({i \in 1..Len(settings) : settings[i].userId = uid}) = 1

\* C6 witness: a GET /settings that found the defaults an earlier one had stored
C6_Witness ==
    /\ Done(1, "GET /api/settings")
    /\ hasSettings(pre[1].settings, user[1].id)
    /\ resp[1].body.theme = "light"
    /\ resp[1].body.notifications
    /\ ~resp[1].body.emailNotifications

\* C7: DELETE /notifications/:id with an id no notification has responds 404 and
\* leaves the notifications unchanged; with a notification's id it responds 200
\* {success: true}, removes that notification and no other, and the id is never
\* given to a later notification.
C7_DeleteNotification ==
    /\ \A i \in 1..Len(notifications) : notifications[i].id < nextId
    /\ \A p \in Procs : Done(p, "DELETE /api/notifications/:id") =>
        LET old == pre[p].notifications
            at == {i \in 1..Len(old) : old[i].id = req[p].id}
        IN
        IF at = {}
        THEN /\ resp[p] = Error(404, "Notification not found")
             /\ notifications = old
        ELSE /\ resp[p] = Ok([success |-> TRUE])
             /\ Cardinality(at) = 1
             /\ req[p].id < nextId
             /\ ~hasNotification(notifications, req[p].id)
             /\ \E i \in at :
                    notifications = SubSeq(old, 1, i - 1) \o SubSeq(old, i + 1, Len(old))

\* C7 witness: a notification was deleted and another one remains
C7_Witness ==
    /\ Done(1, "DELETE /api/notifications/:id")
    /\ resp[1].status = 200
    /\ Len(notifications) >= 1

\* C8: Every user resolution returns the most recently created user when users
\* exist and creates none; it creates the demo user "DemoUser", and returns it,
\* only when it read no user.
C8_LastUserWins ==
    \A p \in Procs : user[p] # NoUser =>
        LET found == pre[p].users IN
        IF found # <<>>
        THEN /\ \E i \in 1..Len(found) : user[p] = found[i]
             /\ \A i \in 1..Len(found) : found[i].id <= user[p].id
             /\ Len(users) = Len(found)
        ELSE /\ Len(users) = 1
             /\ users[1].username = "DemoUser"
             /\ user[p].id = users[1].id
             /\ user[p].username = "DemoUser"

\* C8 witness: a request was resolved while two users existed
C8_Witness ==
    /\ user[1] # NoUser
    /\ Len(pre[1].users) >= 2

\* request p recorded a check-in: updateUserCheckin answered it
Recorded(p) ==
    /\ req[p].kind = "POST /api/checkin"
    /\ updatedUser[p] # NoUser

\* C9: Of the concurrent POST /checkin requests for one user on one calendar
\* date, at most one records a check-in.
C9_Original ==
    \A p, q \in Procs :
        (p # q /\ Recorded(p) /\ Recorded(q) /\ updatedUser[p].id = updatedUser[q].id) =>
            updatedUser[p].lastCheckin # updatedUser[q].lastCheckin

\* C10: The handler layer creates at most one demo user.
C10_Original ==
    Cardinality({i \in 1..Len(users) : users[i].username = "DemoUser"}) <= 1
====
